---- MODULE Spec2Model ----
(***************************************************************************)
(* A model of src/src/random.cpp: the seed mixer (RandAddSeed,             *)
(* RandAddSeedPerfmon), the OS entropy source (GetOSRand), the facade over *)
(* the OpenSSL generator (GetRandBytes), the strong byte generator         *)
(* (GetStrongRandBytes), the bounded integer generator (GetRand) and the   *)
(* constructor of FastRandomContext.                                       *)
(*                                                                         *)
(* Each thread runs the functions statement by statement: pc[t] is the     *)
(* statement it is at, loc[t] its locals (with the return-address stack),  *)
(* gh[t] a history of what it has asked of OpenSSL and the OS since its    *)
(* last top-level call.  The OpenSSL generator, the OS random device, the  *)
(* registry and the clock are the environment: every value or status they  *)
(* can hand back is a nondeterministic choice.                             *)
(*                                                                         *)
(* Widths are reduced: a "64-bit" word has WordBits bits, an entropy block *)
(* (32 bytes in the source) has EntLen bytes, a byte has the values        *)
(* 0..MaxByte.                                                             *)
(***************************************************************************)
EXTENDS Integers, Sequences, FiniteSets, TLC

VARIABLES
    pc,            \* pc[t]: the statement thread t is at
    loc,           \* loc[t]: the locals of the functions thread t is in
    gh,            \* gh[t]: history of t's current top-level call
    nLastPerfmon,  \* static int64_t nLastPerfmon (random.cpp:59)
    warned,        \* static bool warned (random.cpp:85)
    clock,         \* what GetTime() returns now
    aborted,       \* abort() has been called: the process is gone
    WIN32,         \* the build: TRUE when compiled with WIN32 defined
    threads,       \* the threads that call into the module
    hist           \* history of the throttle: scrapes decided, stamps written

vars == <<pc, loc, gh, nLastPerfmon, warned, clock, aborted, WIN32, threads, hist>>

-----------------------------------------------------------------------------
(* Bounds of the model *)

WordBits == 3
EntLen == 2
MaxByte == 1
MaxDraws == 4
MaxCounter == 2
NumThreads == 2
StartTime == 600
TickStep == 300
MaxTicks == 2

(* Constants of the program *)

PerfmonInterval == 10 * 60
vDataInitSize == 250000
nMaxSize == 10000000

Threads == 1..NumThreads
UINT64_MAX == 2^WordBits - 1
BufLen == 2 * EntLen

\* A 32-bit value as <<high 16 bits, low 16 bits>>.
U32(hi, lo) == <<hi, lo>>
U32Zero == U32(0, 0)
SeedDeterministic == U32(0, 11)
FixedPointZ == U32(36968, 65535)
FixedPointW == U32(17999, 65535)
\* What a 4-byte draw can be: the two fixed points, zero, 11 and another value.
Seeds32 == {U32Zero, SeedDeterministic, FixedPointZ, FixedPointW, U32(1, 0)}

\* Stack memory not yet written: no statement reads it before writing it,
\* so it only matters as what a missing scrub would leave behind.
Garbage(n) == [i \in 1..n |-> MaxByte]
IsZero(s) == \A i \in 1..Len(s) : s[i] = 0
\* What n bytes handed over by the generator or by the OS can be: all zero, all
\* the largest value, or a different value at each place.
Samples(n) ==
    {[i \in 1..n |-> 0], [i \in 1..n |-> MaxByte], [i \in 1..n |-> i % (MaxByte + 1)]}
Max(a, b) == IF a >= b THEN a ELSE b
Min(a, b) == IF a <= b THEN a ELSE b
Last(s) == s[Len(s)]

\* memory_cleanse(ptr, len) on a byte buffer: the first len bytes become 0.
memory_cleanse(buf, len) == [i \in 1..Len(buf) |-> IF i <= len THEN 0 ELSE buf[i]]

\* CSHA512: Write appends to the message, Finalize gives the digest of the
\* message, BufLen bytes long.  The digest is a stand-in that depends on every
\* byte of the message and on its position.
RECURSIVE Roll(_, _, _)
Roll(msg, k, h) ==
    IF msg = <<>> THEN h
    ELSE Roll(Tail(msg), k, (h * (2 * k + 1) + Head(msg) + 1) % 251)
SHA512(msg) == [i \in 1..BufLen |-> Roll(msg, i, i) % (MaxByte + 1)]

-----------------------------------------------------------------------------
(* State after construction *)

LocInit ==
    [op |-> "none", stack |-> <<>>,
     nCounter |-> 0,
     now |-> 0, vSize |-> 0, vPrev |-> 0, vLo |-> 0, vHi |-> 0,
     regRet |-> "ERROR_SUCCESS", nSize |-> 0,
     have |-> 0,
     num |-> 0, buf |-> <<>>, hasher |-> <<>>, out |-> <<>>,
     nMax |-> 0, nRange |-> 0, nRand |-> 0, ret |-> -1,
     fDeterministic |-> FALSE, tmp |-> U32Zero, Rz |-> U32Zero, Rw |-> U32Zero]

GhInit ==
    [tr |-> <<>>, nDraws |-> 0, firstOk |-> -1, firstOkAt |-> 0,
     srcA |-> <<>>, srcB |-> <<>>, osGot |-> 0, osFail |-> FALSE,
     reqOk |-> TRUE, nReads |-> 0, osDone |-> FALSE]

HistInit == [nScrapes |-> 0, lastScrape |-> 0, tooSoon |-> FALSE, tsDecreased |-> FALSE]

InitCommon ==
    /\ pc = [t \in Threads |-> "idle"]
    /\ loc = [t \in Threads |-> LocInit]
    /\ gh = [t \in Threads |-> GhInit]
    /\ nLastPerfmon = 0
    /\ warned = FALSE
    /\ clock = StartTime
    /\ aborted = FALSE
    /\ hist = HistInit

\* One caller, either build.
Init ==
    /\ InitCommon
    /\ WIN32 \in BOOLEAN
    /\ threads = {1}

\* The WIN32 build with every thread calling.
InitMT ==
    /\ InitCommon
    /\ WIN32 = TRUE
    /\ threads = Threads

-----------------------------------------------------------------------------
(* Control *)

Running(t, label) == ~aborted /\ t \in threads /\ pc[t] = label

Goto(t, label, L, G) ==
    /\ pc' = [pc EXCEPT ![t] = label]
    /\ loc' = [loc EXCEPT ![t] = L]
    /\ gh' = [gh EXCEPT ![t] = G]

\* A call: the statement to come back to is pushed.
CallFn(t, fn, back, L, G) == Goto(t, fn, [L EXCEPT !.stack = <<back>> \o L.stack], G)

\* A return: to the caller's statement; from a top-level call the frame is
\* gone and the thread is free to call again.
Return(t, L, G) ==
    IF L.stack = <<>>
    THEN Goto(t, "idle", LocInit, GhInit)
    ELSE Goto(t, Head(L.stack), [L EXCEPT !.stack = Tail(L.stack)], G)

Log(G, e) == [G EXCEPT !.tr = Append(G.tr, e)]

\* RandFailure(): log and abort(); nothing runs after it.
RandFailure(t, G) ==
    /\ aborted' = TRUE
    /\ pc' = [pc EXCEPT ![t] = "abort"]
    /\ gh' = [gh EXCEPT ![t] = G]
    /\ UNCHANGED <<loc, nLastPerfmon, warned, clock, WIN32, threads, hist>>

Statics == <<nLastPerfmon, warned, clock, aborted, WIN32, threads, hist>>

-----------------------------------------------------------------------------
(* GetRandBytes *)

\* Mutant: only a return of 0 is taken for a failure.
RandBytesFailed_ZeroOnly(status) == status = 0

\* if (RAND_bytes(buf, num) != 1)
RandBytesFailed(status) == status /= 1

\* The rejection limit as the specification states it (GetRand).
Limit(max) == (UINT64_MAX \div max) * max

\* History of a call of RAND_bytes: what it reported, the count of fills, and
\* for GetRand the first value drawn under the limit.
GhostDraw(G, L, v, status) ==
    IF status /= 1 THEN Log(G, "RAND_bytes_failed")
    ELSE LET G1 == [Log(G, "RAND_bytes") EXCEPT !.nDraws = G.nDraws + 1]
         IN  IF L.op = "GetRand"
             THEN IF G.firstOk = -1 /\ v < Limit(L.nMax)
                  THEN [G1 EXCEPT !.firstOk = v, !.firstOkAt = G.nDraws + 1]
                  ELSE G1
             ELSE IF L.op = "GetStrongRandBytes"
                  THEN [G1 EXCEPT !.srcA = v]
                  ELSE G1

\* GetRandBytes(buf, num) with buf the local `field`: RAND_bytes fills it with
\* one of Vals and returns 1, or returns 0 or -1, which is fatal.  Of buf
\* (64 bytes) the first 32 are filled.
GetRandBytes(t, field, Vals, next) ==
    /\ gh[t].nDraws < MaxDraws
    /\ \E status \in {-1, 0, 1} : \E v \in Vals :
        IF RandBytesFailed(status)
        THEN RandFailure(t, GhostDraw(gh[t], loc[t], v, status))
        ELSE /\ Goto(t, next,
                     [loc[t] EXCEPT ![field] =
                          IF field = "buf"
                          THEN [i \in 1..BufLen |-> IF i <= EntLen THEN v[i] ELSE @[i]]
                          ELSE v],
                     GhostDraw(gh[t], loc[t], v, status))
             /\ UNCHANGED Statics

-----------------------------------------------------------------------------
(* RandAddSeed *)

Call_RandAddSeed(t) ==
    /\ ~aborted /\ t \in threads /\ pc[t] = "idle"
    /\ Goto(t, "RandAddSeed", [LocInit EXCEPT !.op = "RandAddSeed"], GhInit)
    /\ UNCHANGED Statics

\* int64_t nCounter = GetPerformanceCounter();
RandAddSeed_sample(t) ==
    /\ Running(t, "RandAddSeed")
    /\ \E c \in 1..MaxCounter :
        Goto(t, "RandAddSeed_add", [loc[t] EXCEPT !.nCounter = c], gh[t])
    /\ UNCHANGED Statics

\* Mutant: a failure reported by RAND_add is fatal.
RandAddSeed_add_Checked(t) ==
    /\ Running(t, "RandAddSeed_add")
    /\ \E ok \in BOOLEAN :
        IF ok
        THEN Goto(t, "RandAddSeed_ret", [loc[t] EXCEPT !.nCounter = 0],
                  Log(gh[t], "RAND_add")) /\ UNCHANGED Statics
        ELSE RandFailure(t, Log(gh[t], "RAND_add_failed"))

\* RAND_add(&nCounter, sizeof(nCounter), 1.5); memory_cleanse(&nCounter, ...);
\* what RAND_add reports is not looked at.
RandAddSeed_add(t) ==
    /\ Running(t, "RandAddSeed_add")
    /\ \E ok \in BOOLEAN :
        Goto(t, "RandAddSeed_ret", [loc[t] EXCEPT !.nCounter = 0],
             Log(gh[t], IF ok THEN "RAND_add" ELSE "RAND_add_failed"))
    /\ UNCHANGED Statics

RandAddSeed_ret(t) ==
    /\ Running(t, "RandAddSeed_ret")
    /\ Return(t, loc[t], gh[t])
    /\ UNCHANGED Statics

-----------------------------------------------------------------------------
(* GetRand *)

Call_GetRand(t) ==
    /\ ~aborted /\ t \in threads /\ pc[t] = "idle"
    /\ \E nMax \in 0..UINT64_MAX :
        Goto(t, "GetRand", [LocInit EXCEPT !.op = "GetRand", !.nMax = nMax], GhInit)
    /\ UNCHANGED Statics

\* Mutant: the whole range of the word, not rounded down to a multiple of nMax.
nRangeOf_NoRounding(nMax) == UINT64_MAX

\* (std::numeric_limits<uint64_t>::max() / nMax) * nMax
nRangeOf(nMax) == (UINT64_MAX \div nMax) * nMax

\* while (nRand >= nRange)
GetRandRejects(nRand, nRange) == nRand >= nRange

\* Mutant: the accepted value itself.
GetRandResult_NoModulo(nRand, nMax) == nRand

\* return (nRand % nMax);
GetRandResult(nRand, nMax) == nRand % nMax

\* if (nMax == 0) return 0; nRange = ...; nRand = 0;
GetRand_begin(t) ==
    /\ Running(t, "GetRand")
    /\ IF loc[t].nMax = 0
       THEN Goto(t, "GetRand_ret", [loc[t] EXCEPT !.ret = 0], gh[t])
       ELSE Goto(t, "GetRand_loop",
                 [loc[t] EXCEPT !.nRange = nRangeOf(loc[t].nMax), !.nRand = 0], gh[t])
    /\ UNCHANGED Statics

\* GetRandBytes((uint8_t *)&nRand, sizeof(nRand));
GetRand_draw(t) ==
    /\ Running(t, "GetRand_loop")
    /\ GetRandBytes(t, "nRand", 0..UINT64_MAX, "GetRand_test")

GetRand_test(t) ==
    /\ Running(t, "GetRand_test")
    /\ IF GetRandRejects(loc[t].nRand, loc[t].nRange)
       THEN Goto(t, "GetRand_loop", loc[t], gh[t])
       ELSE Goto(t, "GetRand_ret",
                 [loc[t] EXCEPT !.ret = GetRandResult(loc[t].nRand, loc[t].nMax)], gh[t])
    /\ UNCHANGED Statics

GetRand_ret(t) ==
    /\ Running(t, "GetRand_ret")
    /\ Return(t, loc[t], gh[t])
    /\ UNCHANGED Statics

-----------------------------------------------------------------------------
(* RandAddSeedPerfmon *)

\* Sizes of the performance data the registry may hold.
DataSizes == {200000, 300000}

\* RegQueryValueExA(HKEY_PERFORMANCE_DATA, "Global", ..., vData.data(), &nSize)
\* on a buffer of `size` bytes: the status, nSize on return, and how many
\* leading bytes of the buffer it wrote.  With ERROR_MORE_DATA the content of
\* the buffer is undefined: nothing of it, or all of it, may be written.
RegQueryValueExA(size) ==
    {[ret |-> "ERROR_SUCCESS", nSize |-> k, wrote |-> k] : k \in {d \in DataSizes : d <= size}}
    \cup {[ret |-> "ERROR_MORE_DATA", nSize |-> size, wrote |-> w] : w \in {0, size}}
    \cup {[ret |-> "ERROR_ACCESS_DENIED", nSize |-> size, wrote |-> 0]}

\* vData is all zero except, possibly, the bytes at offsets [vLo, vHi).
\* Writing its first w bytes:
WriteBlob(L, w) ==
    IF w = 0 THEN L ELSE [L EXCEPT !.vLo = 0, !.vHi = Max(L.vHi, w)]
\* memory_cleanse(vData.data(), k):
CleanseBlob(L, k) ==
    IF L.vHi <= k THEN [L EXCEPT !.vLo = 0, !.vHi = 0]
    ELSE [L EXCEPT !.vLo = Max(L.vLo, k)]

\* if (GetTime() < nLastPerfmon + 10 * 60) return;
Throttled(now, last) == now < last + PerfmonInterval

\* vData.resize(std::max((vData.size() * 3) / 2, nMaxSize));
GrownSize(size) == Max((size * 3) \div 2, nMaxSize)

\* if (ret != ERROR_MORE_DATA || vData.size() >= nMaxSize) break;
QueryLoopEnds(ret, size) == ret /= "ERROR_MORE_DATA" \/ size >= nMaxSize

\* The static function called on its own (the threads of SpecMT).
Call_RandAddSeedPerfmon(t) ==
    /\ ~aborted /\ t \in threads /\ pc[t] = "idle"
    /\ Goto(t, "Perfmon", [LocInit EXCEPT !.op = "RandAddSeedPerfmon"], GhInit)
    /\ UNCHANGED Statics

\* RandAddSeed();
Perfmon_entry(t) ==
    /\ Running(t, "Perfmon")
    /\ CallFn(t, "RandAddSeed", "Perfmon_check", loc[t], gh[t])
    /\ UNCHANGED Statics

\* #ifdef WIN32 ... if (GetTime() < nLastPerfmon + 10 * 60) return;
Perfmon_check(t) ==
    /\ Running(t, "Perfmon_check")
    /\ IF ~WIN32 \/ Throttled(clock, nLastPerfmon)
       THEN /\ Return(t, loc[t], gh[t])
            /\ UNCHANGED hist
       ELSE /\ Goto(t, "Perfmon_stamp", loc[t], gh[t])
            /\ hist' = [hist EXCEPT
                   !.nScrapes = Min(hist.nScrapes + 1, 2),
                   !.lastScrape = clock,
                   !.tooSoon = hist.tooSoon
                       \/ (hist.nScrapes > 0 /\ clock < hist.lastScrape + PerfmonInterval)]
    /\ UNCHANGED <<nLastPerfmon, warned, clock, aborted, WIN32, threads>>

\* nLastPerfmon = GetTime(): the call ...
Perfmon_stamp(t) ==
    /\ Running(t, "Perfmon_stamp")
    /\ Goto(t, "Perfmon_store", [loc[t] EXCEPT !.now = clock], gh[t])
    /\ UNCHANGED Statics

\* ... and the store to the static, which nothing guards.
Perfmon_store(t) ==
    /\ Running(t, "Perfmon_store")
    /\ nLastPerfmon' = loc[t].now
    /\ hist' = [hist EXCEPT !.tsDecreased = hist.tsDecreased \/ loc[t].now < nLastPerfmon]
    /\ Goto(t, "Perfmon_alloc", loc[t], gh[t])
    /\ UNCHANGED <<warned, clock, aborted, WIN32, threads>>

\* std::vector<uint8_t> vData(250000, 0); long ret = 0; unsigned long nSize = 0;
Perfmon_alloc(t) ==
    /\ Running(t, "Perfmon_alloc")
    /\ Goto(t, "Perfmon_query",
            [loc[t] EXCEPT !.vSize = vDataInitSize, !.vPrev = 0, !.vLo = 0, !.vHi = 0,
                           !.regRet = "ERROR_SUCCESS", !.nSize = 0], gh[t])
    /\ UNCHANGED Statics

\* One turn of while (true): the query, the test, the resize.
Perfmon_query(t) ==
    /\ Running(t, "Perfmon_query")
    /\ \E r \in RegQueryValueExA(loc[t].vSize) :
        LET L == [WriteBlob(loc[t], r.wrote) EXCEPT !.regRet = r.ret, !.nSize = r.nSize]
        IN  IF QueryLoopEnds(r.ret, L.vSize)
            THEN Goto(t, "Perfmon_close", L, gh[t])
            ELSE Goto(t, "Perfmon_query",
                      [L EXCEPT !.vSize = GrownSize(L.vSize), !.vPrev = L.vSize], gh[t])
    /\ UNCHANGED Statics

\* RegCloseKey; on success RAND_add and memory_cleanse of nSize bytes, else
\* the warning, once.
Perfmon_close(t) ==
    /\ Running(t, "Perfmon_close")
    /\ IF loc[t].regRet = "ERROR_SUCCESS"
       THEN /\ \E ok \in BOOLEAN :
                 Goto(t, "Perfmon_ret", CleanseBlob(loc[t], loc[t].nSize),
                      Log(gh[t], IF ok THEN "RAND_add_perfmon" ELSE "RAND_add_perfmon_failed"))
            /\ UNCHANGED warned
       ELSE /\ Goto(t, "Perfmon_ret", loc[t], gh[t])
            /\ warned' = TRUE
    /\ UNCHANGED <<nLastPerfmon, clock, aborted, WIN32, threads, hist>>

\* The return: vData is destroyed.
Perfmon_ret(t) ==
    /\ Running(t, "Perfmon_ret")
    /\ Return(t, [loc[t] EXCEPT !.vSize = 0, !.vPrev = 0, !.vLo = 0, !.vHi = 0,
                                !.regRet = "ERROR_SUCCESS", !.nSize = 0, !.now = 0], gh[t])
    /\ UNCHANGED Statics

\* Time passes.  Only the WIN32 build reads the clock.
Tick ==
    /\ ~aborted /\ WIN32
    /\ clock < StartTime + MaxTicks * TickStep
    /\ clock' = clock + TickStep
    /\ UNCHANGED <<pc, loc, gh, nLastPerfmon, warned, aborted, WIN32, threads, hist>>

-----------------------------------------------------------------------------
(* GetOSRand *)

\* read(f, ent32 + have, 32 - have)
ReadRequest(have) == EntLen - have

\* Mutant: a count past the 32 bytes is let through.
ReadBad_NoOverflowCheck(n, have) == n <= 0

\* if (n <= 0 || n + have > 32) RandFailure();
ReadBad(n, have) == n <= 0 \/ n + have > EntLen

\* while (have < 32)
ReadMore(have) == have < EntLen

\* ent32[at+1 .. at+Len(data)] = data
WriteAt(buf, at, data) ==
    [i \in 1..Len(buf) |-> IF i > at /\ i <= at + Len(data) THEN data[i - at] ELSE buf[i]]

\* open("/dev/urandom", O_RDONLY), or CryptAcquireContextW; int have = 0;
GetOSRand_open(t) ==
    /\ Running(t, "GetOSRand")
    /\ \E ok \in BOOLEAN :
        IF ok
        THEN Goto(t, "GetOSRand_read", [loc[t] EXCEPT !.have = 0], gh[t]) /\ UNCHANGED Statics
        ELSE RandFailure(t, [Log(gh[t], "GetOSRand_failed") EXCEPT !.osFail = TRUE])

\* History of a read that asked for req bytes and reported n: a count that is
\* zero, negative or past the 32 bytes is a failure of the source.
GhostRead(G, req, n) ==
    [G EXCEPT !.nReads = @ + 1,
              !.reqOk = @ /\ req = EntLen - G.osGot,
              !.osFail = @ \/ n <= 0 \/ n + G.osGot > EntLen]

\* One read of the do-while loop; in the WIN32 build CryptGenRandom(.., 32, ent32).
GetOSRand_read(t) ==
    /\ Running(t, "GetOSRand_read")
    /\ IF WIN32
       THEN \E ok \in BOOLEAN :
              IF ok
              THEN /\ \E data \in Samples(EntLen) :
                        Goto(t, "GetOSRand_close",
                             [loc[t] EXCEPT !.buf = WriteAt(@, 0, data), !.have = EntLen],
                             [GhostRead(gh[t], EntLen, EntLen) EXCEPT
                                  !.srcB = data, !.osGot = EntLen])
                   /\ UNCHANGED Statics
              ELSE RandFailure(t, Log(GhostRead(gh[t], EntLen, 0), "GetOSRand_failed"))
       ELSE LET have == loc[t].have
                req == ReadRequest(have)
            IN  \E n \in -1..(req + 1) :
                  IF ReadBad(n, have)
                  THEN RandFailure(t, Log(GhostRead(gh[t], req, n), "GetOSRand_failed"))
                  ELSE /\ \E data \in Samples(n) :
                            Goto(t, IF ReadMore(have + n) THEN "GetOSRand_read"
                                                          ELSE "GetOSRand_close",
                                 [loc[t] EXCEPT !.buf = WriteAt(@, have, data),
                                                !.have = have + n],
                                 [GhostRead(gh[t], req, n) EXCEPT
                                      !.srcB = @ \o data, !.osGot = @ + n])
                       /\ UNCHANGED Statics

\* close(f), or CryptReleaseContext; the return.
GetOSRand_close(t) ==
    /\ Running(t, "GetOSRand_close")
    /\ Return(t, loc[t], [Log(gh[t], "GetOSRand") EXCEPT !.osDone = TRUE])
    /\ UNCHANGED Statics

-----------------------------------------------------------------------------
(* GetStrongRandBytes *)

\* assert(num <= 32) is the precondition: only such calls are made.
Call_GetStrongRandBytes(t) ==
    /\ ~aborted /\ t \in threads /\ pc[t] = "idle"
    /\ \E num \in 0..EntLen :
        Goto(t, "GetStrong",
             [LocInit EXCEPT !.op = "GetStrongRandBytes", !.num = num,
                             !.buf = Garbage(BufLen)], GhInit)
    /\ UNCHANGED Statics

\* RandAddSeedPerfmon();
GetStrong_seed(t) ==
    /\ Running(t, "GetStrong")
    /\ CallFn(t, "Perfmon", "GetStrong_draw", loc[t], gh[t])
    /\ UNCHANGED Statics

\* GetRandBytes(buf, 32);
GetStrong_draw(t) ==
    /\ Running(t, "GetStrong_draw")
    /\ GetRandBytes(t, "buf", Samples(EntLen), "GetStrong_hashA")

\* Mutant: the first source is not written to the hasher.
GetStrong_hashA_NoWrite(t) ==
    /\ Running(t, "GetStrong_hashA")
    /\ CallFn(t, "GetOSRand", "GetStrong_hashB", loc[t], gh[t])
    /\ UNCHANGED Statics

\* hasher.Write(buf, 32); GetOSRand(buf);
GetStrong_hashA(t) ==
    /\ Running(t, "GetStrong_hashA")
    /\ CallFn(t, "GetOSRand", "GetStrong_hashB",
              [loc[t] EXCEPT !.hasher = @ \o SubSeq(loc[t].buf, 1, EntLen)], gh[t])
    /\ UNCHANGED Statics

\* hasher.Write(buf, 32); hasher.Finalize(buf); memcpy(out, buf, num);
GetStrong_hashB(t) ==
    /\ Running(t, "GetStrong_hashB")
    /\ LET msg == loc[t].hasher \o SubSeq(loc[t].buf, 1, EntLen)
           digest == SHA512(msg)
       IN  Goto(t, "GetStrong_cleanse",
                [loc[t] EXCEPT !.hasher = msg, !.buf = digest,
                               !.out = SubSeq(digest, 1, loc[t].num)],
                Log(Log(gh[t], "SHA512"), "memcpy"))
    /\ UNCHANGED Statics

\* Mutant: only the 32 bytes of a source are scrubbed.
GetStrong_cleanse_Half(t) ==
    /\ Running(t, "GetStrong_cleanse")
    /\ Goto(t, "GetStrong_ret", [loc[t] EXCEPT !.buf = memory_cleanse(@, EntLen)], gh[t])
    /\ UNCHANGED Statics

\* memory_cleanse(buf, 64);
GetStrong_cleanse(t) ==
    /\ Running(t, "GetStrong_cleanse")
    /\ Goto(t, "GetStrong_ret", [loc[t] EXCEPT !.buf = memory_cleanse(@, BufLen)], gh[t])
    /\ UNCHANGED Statics

GetStrong_ret(t) ==
    /\ Running(t, "GetStrong_ret")
    /\ Return(t, loc[t], gh[t])
    /\ UNCHANGED Statics

-----------------------------------------------------------------------------
(* FastRandomContext::FastRandomContext *)

Call_FastRandomContext(t) ==
    /\ ~aborted /\ t \in threads /\ pc[t] = "idle"
    /\ \E fDeterministic \in BOOLEAN :
        Goto(t, "FastRandomContext",
             [LocInit EXCEPT !.op = "FastRandomContext",
                             !.fDeterministic = fDeterministic], GhInit)
    /\ UNCHANGED Statics

\* while (tmp == 0 || tmp == 0x9068ffffU)
BadSeedZ(tmp) == tmp = U32Zero \/ tmp = FixedPointZ

\* Mutant: the other lane's fixed point.
BadSeedW_OtherLane(tmp) == tmp = U32Zero \/ tmp = FixedPointZ

\* while (tmp == 0 || tmp == 0x464fffffU)
BadSeedW(tmp) == tmp = U32Zero \/ tmp = FixedPointW

\* if (fDeterministic) { Rz = Rw = 11; } else ...
FastRandomContext_begin(t) ==
    /\ Running(t, "FastRandomContext")
    /\ IF loc[t].fDeterministic
       THEN Goto(t, "FastRandomContext_ret",
                 [loc[t] EXCEPT !.Rz = SeedDeterministic, !.Rw = SeedDeterministic], gh[t])
       ELSE Goto(t, "FastRandomContext_drawZ", loc[t], gh[t])
    /\ UNCHANGED Statics

FastRandomContext_drawZ(t) ==
    /\ Running(t, "FastRandomContext_drawZ")
    /\ GetRandBytes(t, "tmp", Seeds32, "FastRandomContext_testZ")

\* } while (...); Rz = tmp;
FastRandomContext_testZ(t) ==
    /\ Running(t, "FastRandomContext_testZ")
    /\ IF BadSeedZ(loc[t].tmp)
       THEN Goto(t, "FastRandomContext_drawZ", loc[t], gh[t])
       ELSE Goto(t, "FastRandomContext_drawW", [loc[t] EXCEPT !.Rz = loc[t].tmp], gh[t])
    /\ UNCHANGED Statics

FastRandomContext_drawW(t) ==
    /\ Running(t, "FastRandomContext_drawW")
    /\ GetRandBytes(t, "tmp", Seeds32, "FastRandomContext_testW")

\* } while (...); Rw = tmp;
FastRandomContext_testW(t) ==
    /\ Running(t, "FastRandomContext_testW")
    /\ IF BadSeedW(loc[t].tmp)
       THEN Goto(t, "FastRandomContext_drawW", loc[t], gh[t])
       ELSE Goto(t, "FastRandomContext_ret", [loc[t] EXCEPT !.Rw = loc[t].tmp], gh[t])
    /\ UNCHANGED Statics

FastRandomContext_ret(t) ==
    /\ Running(t, "FastRandomContext_ret")
    /\ Return(t, loc[t], gh[t])
    /\ UNCHANGED Statics

-----------------------------------------------------------------------------
(* The specifications *)

\* One caller of the public functions, in either build.
Next ==
    \/ \E t \in Threads :
        \/ Call_RandAddSeed(t) \/ RandAddSeed_sample(t) \/ RandAddSeed_add(t)
        \/ RandAddSeed_ret(t)
        \/ Perfmon_entry(t) \/ Perfmon_check(t) \/ Perfmon_stamp(t) \/ Perfmon_store(t)
        \/ Perfmon_alloc(t) \/ Perfmon_query(t) \/ Perfmon_close(t) \/ Perfmon_ret(t)
        \/ GetOSRand_open(t) \/ GetOSRand_read(t) \/ GetOSRand_close(t)
        \/ Call_GetStrongRandBytes(t) \/ GetStrong_seed(t) \/ GetStrong_draw(t)
        \/ GetStrong_hashA(t) \/ GetStrong_hashB(t) \/ GetStrong_cleanse(t)
        \/ GetStrong_ret(t)
        \/ Call_GetRand(t) \/ GetRand_begin(t) \/ GetRand_draw(t) \/ GetRand_test(t)
        \/ GetRand_ret(t)
        \/ Call_FastRandomContext(t) \/ FastRandomContext_begin(t)
        \/ FastRandomContext_drawZ(t) \/ FastRandomContext_testZ(t)
        \/ FastRandomContext_drawW(t) \/ FastRandomContext_testW(t)
        \/ FastRandomContext_ret(t)
    \/ Tick

Spec == Init /\ [][Next]_vars

\* Several threads of the WIN32 build inside RandAddSeedPerfmon.
NextMT ==
    \/ \E t \in Threads :
        \/ Call_RandAddSeedPerfmon(t)
        \/ RandAddSeed_sample(t) \/ RandAddSeed_add(t) \/ RandAddSeed_ret(t)
        \/ Perfmon_entry(t) \/ Perfmon_check(t) \/ Perfmon_stamp(t) \/ Perfmon_store(t)
        \/ Perfmon_alloc(t) \/ Perfmon_query(t) \/ Perfmon_close(t) \/ Perfmon_ret(t)
    \/ Tick

SpecMT == InitMT /\ [][NextMT]_vars

-----------------------------------------------------------------------------
(* Properties *)

In(t, fn) == t \in threads /\ loc[t].op = fn
Occurs(e, tr) == \E i \in 1..Len(tr) : tr[i] = e

\* C1: for max > 0 GetRand returns a value v with 0 <= v < max whatever the
\* generator yields; GetRand(0) returns 0 and draws nothing.
C1_ResultInRange ==
    \A t \in Threads :
        In(t, "GetRand") =>
            /\ pc[t] = "GetRand_ret" /\ loc[t].nMax > 0
                   => loc[t].ret >= 0 /\ loc[t].ret < loc[t].nMax
            /\ loc[t].nMax = 0
                   => /\ gh[t].tr = <<>>
                      /\ pc[t] \in {"GetRand", "GetRand_ret"}
                      /\ pc[t] = "GetRand_ret" => loc[t].ret = 0

\* GetRand is about to return a value after having thrown one draw away.
C1_Witness ==
    \E t \in Threads :
        /\ In(t, "GetRand") /\ pc[t] = "GetRand_ret"
        /\ loc[t].nMax > 1 /\ loc[t].ret = loc[t].nMax - 1 /\ gh[t].nDraws >= 2

\* C2: with limit = floor(UINT64_MAX / max) * max, GetRand returns a mod max
\* for the first drawn a < limit, every draw before it having been thrown away
\* and none made after it; and every result in [0, max) is the image of
\* exactly limit / max of the accepted values.
C2_RejectionSampling ==
    \A t \in Threads :
        In(t, "GetRand") /\ loc[t].nMax > 0 =>
            /\ pc[t] = "GetRand_loop" => gh[t].firstOk = -1
            /\ pc[t] \in {"GetRand_loop", "GetRand_test", "GetRand_ret"} =>
                   /\ loc[t].nRange = Limit(loc[t].nMax)
                   /\ \A r \in 0..(loc[t].nMax - 1) :
                          Cardinality({a \in 0..(loc[t].nRange - 1) : a % loc[t].nMax = r})
                              = loc[t].nRange \div loc[t].nMax
            /\ pc[t] = "GetRand_ret" =>
                   /\ gh[t].firstOk >= 0
                   /\ gh[t].firstOkAt = gh[t].nDraws
                   /\ loc[t].nRand = gh[t].firstOk
                   /\ loc[t].ret = gh[t].firstOk % loc[t].nMax

\* GetRand returns after two draws at or over a limit that is not the whole range.
C2_Witness ==
    \E t \in Threads :
        /\ In(t, "GetRand") /\ pc[t] = "GetRand_ret"
        /\ loc[t].nMax > 0 /\ loc[t].nRange + 1 < UINT64_MAX
        /\ gh[t].firstOkAt = 3

\* C3: GetOSRand returns only with exactly 32 bytes accumulated over one or
\* more reads, each asking for the bytes still missing; a failed open, a read
\* of zero or fewer bytes, or a read past 32 ends the process.
C3_OSEntropyAllOrAbort ==
    \A t \in Threads :
        /\ gh[t].reqOk
        /\ gh[t].osFail => aborted /\ pc[t] = "abort"
        /\ Occurs("GetOSRand_failed", gh[t].tr) => aborted /\ pc[t] = "abort"
        /\ pc[t] = "GetOSRand_read" => loc[t].have = gh[t].osGot /\ loc[t].have < EntLen
        /\ pc[t] \in {"GetOSRand_close", "GetStrong_hashB"} =>
               /\ gh[t].nReads >= 1
               /\ loc[t].have = EntLen /\ gh[t].osGot = EntLen
               /\ Len(gh[t].srcB) = EntLen
               /\ SubSeq(loc[t].buf, 1, EntLen) = gh[t].srcB

\* GetOSRand is about to return what two partial reads delivered.
C3_Witness ==
    \E t \in Threads :
        /\ pc[t] = "GetOSRand_close" /\ ~WIN32
        /\ gh[t].nReads >= 2 /\ gh[t].osGot = EntLen

\* C4: a non-success return of RAND_bytes ends the process at once: it is
\* the last thing the thread asks of the generator, the fill is not retried
\* and the caller never runs on.
C4_FillFailureFatal ==
    \A t \in Threads :
        \A i \in 1..Len(gh[t].tr) :
            gh[t].tr[i] = "RAND_bytes_failed" =>
                i = Len(gh[t].tr) /\ aborted /\ pc[t] = "abort"

\* GetRand's second fill failed and the process is gone.
C4_Witness ==
    \E t \in Threads :
        /\ In(t, "GetRand") /\ pc[t] = "abort" /\ aborted
        /\ gh[t].nDraws = 1 /\ Last(gh[t].tr) = "RAND_bytes_failed"

\* C5 as claimed: a seed-feed that reports failure ends the process; it is
\* never followed by a return and a draw from the pool.
C5_Original ==
    \A t \in Threads :
        \A i \in 1..Len(gh[t].tr) :
            gh[t].tr[i] \in {"RAND_add_failed", "RAND_add_perfmon_failed"} =>
                \A j \in (i + 1)..Len(gh[t].tr) : gh[t].tr[j] /= "RAND_bytes"

\* C5 as amended: what RAND_add reports is not examined; the process is ended
\* only by a failed fill or a failed OS entropy read, and after a seed-feed
\* that reported failure the feeding function goes on to its return.
C5_SeedFeedNotFatal ==
    \A t \in Threads :
        /\ pc[t] = "abort" =>
               Last(gh[t].tr) \in {"RAND_bytes_failed", "GetOSRand_failed"}
        /\ gh[t].tr /= <<>> /\ Last(gh[t].tr) = "RAND_add_failed" =>
               pc[t] /= "abort" /\ loc[t].nCounter = 0

\* The timing feed reported failure and GetStrongRandBytes has drawn from the pool.
C5_Witness ==
    \E t \in Threads :
        /\ pc[t] = "GetStrong_hashA"
        /\ gh[t].tr = <<"RAND_add_failed", "RAND_bytes">>

Expected == <<"RAND_add", "RAND_bytes", "GetOSRand", "SHA512", "memcpy">>
IsCore(e) == e \notin {"RAND_add_perfmon", "RAND_add_perfmon_failed"}
Base(e) ==
    CASE e = "RAND_add_failed" -> "RAND_add"
      [] e = "RAND_bytes_failed" -> "RAND_bytes"
      [] e = "GetOSRand_failed" -> "GetOSRand"
      [] OTHER -> e

\* C6: a call of GetStrongRandBytes(out, n) does, in this order and once each,
\* the timing feed, a 32-byte draw from the generator (A), a 32-byte read of
\* the OS source (B), a hash of A followed by B and a copy of the first n
\* digest bytes to out; out is not written before the copy.
C6_StrongOrder ==
    \A t \in Threads :
        In(t, "GetStrongRandBytes") =>
            LET s == SelectSeq(gh[t].tr, IsCore)
            IN  /\ Len(s) <= Len(Expected)
                /\ \A i \in 1..Len(s) : Base(s[i]) = Expected[i]
                /\ ~Occurs("memcpy", gh[t].tr) => loc[t].out = <<>>
                /\ pc[t] = "GetStrong_ret" =>
                       /\ Len(s) = Len(Expected)
                       /\ Len(gh[t].srcA) = EntLen /\ Len(gh[t].srcB) = EntLen
                       /\ loc[t].hasher = gh[t].srcA \o gh[t].srcB
                       /\ Len(loc[t].out) = loc[t].num
                       /\ loc[t].out = SubSeq(SHA512(gh[t].srcA \o gh[t].srcB), 1, loc[t].num)

\* GetStrongRandBytes returns a proper prefix of the digest of two different sources.
C6_Witness ==
    \E t \in Threads :
        /\ In(t, "GetStrongRandBytes") /\ pc[t] = "GetStrong_ret"
        /\ loc[t].num = 1 /\ gh[t].srcA /= gh[t].srcB /\ gh[t].nReads >= 2

BlobClean(L) == L.vLo >= L.vHi

\* C7 as claimed: each temporary buffer is all zero when its operation
\* returns: the counter of RandAddSeed, the 64 bytes of GetStrongRandBytes,
\* the performance data, the draw of GetRand and the draw of the constructor.
C7_Original ==
    \A t \in Threads :
        /\ pc[t] = "RandAddSeed_ret" => loc[t].nCounter = 0
        /\ pc[t] = "GetStrong_ret" => IsZero(loc[t].buf)
        /\ pc[t] = "Perfmon_ret" => BlobClean(loc[t])
        /\ pc[t] = "GetRand_ret" => loc[t].nRand = 0
        /\ pc[t] = "FastRandomContext_ret" /\ ~loc[t].fDeterministic => loc[t].tmp = U32Zero

\* C7 as amended: when the operation returns, the counter of RandAddSeed and
\* the 64 bytes of GetStrongRandBytes are all zero, and after a query that
\* succeeded the nSize bytes of performance data fed to the pool are zero;
\* the draw of GetRand and the draw of the constructor are not scrubbed, they
\* hold the accepted draw.
C7_Scrubbed ==
    \A t \in Threads :
        /\ pc[t] = "RandAddSeed_ret" => loc[t].nCounter = 0
        /\ pc[t] = "GetStrong_ret" => Len(loc[t].buf) = BufLen /\ IsZero(loc[t].buf)
        /\ pc[t] = "Perfmon_ret" /\ loc[t].vSize > 0 /\ loc[t].regRet = "ERROR_SUCCESS" =>
               ~(loc[t].vLo < loc[t].vHi /\ loc[t].vLo < loc[t].nSize)
        /\ pc[t] = "GetRand_ret" /\ loc[t].nMax > 0 => loc[t].nRand = gh[t].firstOk
        /\ pc[t] = "FastRandomContext_ret" /\ ~loc[t].fDeterministic =>
               loc[t].tmp = loc[t].Rw /\ loc[t].tmp /= U32Zero

\* GetStrongRandBytes returns a digest byte that is not zero: the digest was in buf.
C7_Witness ==
    \E t \in Threads :
        /\ pc[t] = "GetStrong_ret" /\ loc[t].num = EntLen
        /\ ~IsZero(loc[t].out)

\* C8: after construction lane z is neither 0 nor 0x9068ffff and lane w
\* neither 0 nor 0x464fffff; the deterministic mode sets both to 11 and draws
\* nothing, the other mode takes each lane from a draw of its own.
C8_SeedsNotFixedPoints ==
    \A t \in Threads :
        In(t, "FastRandomContext") /\ pc[t] = "FastRandomContext_ret" =>
            /\ loc[t].Rz \notin {U32Zero, FixedPointZ}
            /\ loc[t].Rw \notin {U32Zero, FixedPointW}
            /\ loc[t].fDeterministic =>
                   /\ loc[t].Rz = SeedDeterministic /\ loc[t].Rw = SeedDeterministic
                   /\ gh[t].tr = <<>>
            /\ ~loc[t].fDeterministic =>
                   /\ gh[t].nDraws >= 2
                   /\ loc[t].Rw = loc[t].tmp

\* A constructor that drew again for each lane, lane z being lane w's fixed point.
C8_Witness ==
    \E t \in Threads :
        /\ In(t, "FastRandomContext") /\ pc[t] = "FastRandomContext_ret"
        /\ ~loc[t].fDeterministic /\ gh[t].nDraws = 4
        /\ loc[t].Rz = FixedPointW

\* C9 as claimed: with calls from several threads, no two scrapes are decided
\* less than 10 minutes apart and nLastPerfmon never decreases.
C9_Original == ~hist.tooSoon /\ ~hist.tsDecreased

\* C10 as claimed: each growth of the query buffer multiplies its size by 1.5,
\* up to the cap of 10000000 bytes, which it never exceeds.
C10_Original ==
    \A t \in Threads :
        /\ loc[t].vSize <= nMaxSize
        /\ loc[t].vPrev > 0 => loc[t].vSize = Min((loc[t].vPrev * 3) \div 2, nMaxSize)

====
